---- MODULE Spec2Model ----
(***************************************************************************)
(* Model of fast_fscanf_mem (src/fast_fscanf.cpp): a scanf-like scanner    *)
(* over a (buffer, size, offset) triple.  Characters are one-character     *)
(* strings, the buffer and the format are sequences of characters, and     *)
(* pointers are 0-based indices into the buffer.  One action models one    *)
(* iteration of the format loop.  Integer widths follow the LP64 data      *)
(* model (short 16, int 32, long 64 bits); wide values are kept as 16-bit  *)
(* limbs, least significant first.                                         *)
(***************************************************************************)
EXTENDS Integers, Sequences, FiniteSets, TLC

VARIABLES
    buffer,        \* the allocation holding the text (may be longer than size)
    size,          \* the size argument
    format,        \* the format string, without its terminating NUL
    offset,        \* the caller's *offset
    slots,         \* the caller's output variables, in argument order
    ptr,           \* ms.ptr, as an index into buffer
    fpos,          \* the format pointer, as a 1-based index into format
    argi,          \* number of va_arg calls made so far
    matchedCount,  \* matchedCount
    pc,            \* "idle", "loop", "break", "done"
    ret,           \* value returned by the last call
    calls,         \* number of calls the caller has made
    reads,         \* history: buffer indices dereferenced during this call
    trace,         \* history: one entry per directive processed in this call
    startOffset,   \* history: *offset at entry of this call
    results,       \* history: what each finished call returned
    other          \* a second invocation on the same buffer (pc "none": absent)

vars == <<buffer, size, format, offset, slots, ptr, fpos, argi, matchedCount,
          pc, ret, calls, reads, trace, startOffset, results, other>>

\* ------------------------------------------------------------------------
\* Bounds of the model
\* ------------------------------------------------------------------------

\* longest enumerated buffer
MaxLen == 3

\* most calls the caller makes on one buffer
MaxCalls == 3

\* ------------------------------------------------------------------------
\* Characters (<cctype>, "C" locale)
\* ------------------------------------------------------------------------

\* the zero byte: the format terminator and the value ms_peek/ms_getc give at EOF
NUL == "NUL"

Digits == <<"0", "1", "2", "3", "4", "5", "6", "7", "8", "9">>

HexLower == <<"a", "b", "c", "d", "e", "f">>

HexUpper == <<"A", "B", "C", "D", "E", "F">>

isspace(c) == c \in {" ", "\t", "\n", "\r", "\f"}

isdigit(c) == \E i \in 1..10 : Digits[i] = c

isxdigit(c) ==
    \/ isdigit(c)
    \/ \E i \in 1..6 : HexLower[i] = c \/ HexUpper[i] = c

\* numeric value of a digit character in bases up to 16
DigitVal(c) ==
    IF isdigit(c) THEN (CHOOSE i \in 1..10 : Digits[i] = c) - 1
    ELSE IF \E i \in 1..6 : HexLower[i] = c
         THEN 9 + (CHOOSE i \in 1..6 : HexLower[i] = c)
         ELSE 9 + (CHOOSE i \in 1..6 : HexUpper[i] = c)

\* ------------------------------------------------------------------------
\* MemScanner: [ptr, rd].  ptr is ms.ptr; ms.end is size.  rd collects the
\* buffer indices the code dereferences.
\* ------------------------------------------------------------------------

\* *p for an index into the allocation; bytes past the allocation read as NUL
MemAt(i) == IF i >= 0 /\ i < Len(buffer) THEN buffer[i + 1] ELSE NUL

\* records the dereference *ms.ptr
Deref(ms) == [ms EXCEPT !.rd = @ \cup {ms.ptr}]

Advance(ms) == [ms EXCEPT !.ptr = @ + 1]

\* faulty variant of ms_eof: the end itself still counts as data
ms_eof_off_by_one(ms) == ms.ptr > size

\* ms_eof: out of data
ms_eof(ms) == ms.ptr >= size

ms_peek(ms) == IF ms_eof(ms) THEN NUL ELSE MemAt(ms.ptr)

\* the scanner after ms_peek: the byte is read unless at EOF
AfterPeek(ms) == IF ms_eof(ms) THEN ms ELSE Deref(ms)

\* the scanner after ms_getc (the character returned is ms_peek of the old one)
ms_getc(ms) == IF ms_eof(ms) THEN ms ELSE Advance(Deref(ms))

\* variant of ms_ungetc that does what its comment says: back by one unless
\* at the start
ms_ungetc_back_one(ms) ==
    LET m1 == IF ms.ptr > size THEN [ms EXCEPT !.ptr = size] ELSE ms
    IN  IF m1.ptr > 0 THEN [m1 EXCEPT !.ptr = @ - 1] ELSE m1

\* ms_ungetc: the guard compares ms.ptr with ms.end - (ms.end - ms.ptr)
ms_ungetc(ms) ==
    LET m1 == IF ms.ptr > size THEN [ms EXCEPT !.ptr = size] ELSE ms
    IN  IF m1.ptr > (size - (size - m1.ptr))
        THEN [m1 EXCEPT !.ptr = @ - 1]
        ELSE m1

RECURSIVE ms_skip_whitespace(_)
ms_skip_whitespace(ms) ==
    IF ms_eof(ms) THEN ms
    ELSE IF isspace(MemAt(ms.ptr))
         THEN ms_skip_whitespace(Advance(Deref(ms)))
         ELSE Deref(ms)

\* ------------------------------------------------------------------------
\* Token scanners.  Each returns the scanner after the call, the bool it
\* returns, and the text it captured.
\* ------------------------------------------------------------------------

\* faulty variant of readChar: no check for the end of the buffer
readChar_unchecked(ms) ==
    [ms |-> Advance(Deref(ms)), ok |-> TRUE, out |-> MemAt(ms.ptr)]

\* readChar: '%c'
readChar(ms) ==
    IF ms_eof(ms)
    THEN [ms |-> ms, ok |-> FALSE, out |-> NUL]
    ELSE [ms |-> ms_getc(ms), ok |-> TRUE, out |-> ms_peek(ms)]

\* default width readString takes for width <= 0
BigWidth == 1048576

\* the while loop of readString; dest holds the count characters stored so far
RECURSIVE readStringLoop(_, _, _)
readStringLoop(ms, width, dest) ==
    IF ms_eof(ms) THEN [ms |-> ms, dest |-> dest]
    ELSE LET c == ms_peek(ms)
         IN  IF isspace(c)
             THEN [ms |-> AfterPeek(ms), dest |-> dest]
             ELSE readStringLoop(ms_getc(AfterPeek(ms)), width,
                                 IF Len(dest) < width - 1
                                 THEN Append(dest, c) ELSE dest)

\* readString: '%s'.  dest is the text left in the destination; the
\* destination is not written at all when dest is empty.
readString(ms, width0) ==
    LET width == IF width0 <= 0 THEN BigWidth ELSE width0
        r == readStringLoop(ms_skip_whitespace(ms), width, <<>>)
    IN  [ms |-> r.ms, ok |-> Len(r.dest) > 0, dest |-> r.dest]

\* characters the digit loop of readIntegerToken accepts
ValidDigit(c, base) ==
    IF base = 10 THEN isdigit(c)
    ELSE IF base = 16 THEN isxdigit(c)
    ELSE FALSE

\* the digit loop of readIntegerToken
RECURSIVE readIntegerLoop(_, _, _, _, _)
readIntegerLoop(ms, base, bufSize, tok, gotDigit) ==
    IF ms_eof(ms) THEN [ms |-> ms, tok |-> tok, gotDigit |-> gotDigit]
    ELSE LET c == ms_peek(ms)
         IN  IF ~ValidDigit(c, base)
             THEN [ms |-> AfterPeek(ms), tok |-> tok, gotDigit |-> gotDigit]
             ELSE readIntegerLoop(ms_getc(AfterPeek(ms)), base, bufSize,
                                  IF Len(tok) < bufSize - 1
                                  THEN Append(tok, c) ELSE tok,
                                  TRUE)

\* faulty variant of readIntegerToken: a token that ends with the buffer is
\* not accepted
readIntegerToken_needs_terminator(ms0, allowSign, base, bufSize) ==
    LET m1 == ms_skip_whitespace(ms0)
        c == ms_peek(m1)
        signed == allowSign /\ (c = "+" \/ c = "-")
        m2 == IF allowSign
              THEN (IF signed THEN ms_getc(AfterPeek(m1)) ELSE AfterPeek(m1))
              ELSE m1
        r == readIntegerLoop(m2, base, bufSize,
                             IF signed THEN <<c>> ELSE <<>>, FALSE)
    IN  [ms |-> r.ms, ok |-> r.gotDigit /\ ~ms_eof(r.ms), tok |-> r.tok]

\* variant of readIntegerToken that puts the cursor back when it fails
readIntegerToken_restores(ms0, allowSign, base, bufSize) ==
    LET m1 == ms_skip_whitespace(ms0)
        c == ms_peek(m1)
        signed == allowSign /\ (c = "+" \/ c = "-")
        m2 == IF allowSign
              THEN (IF signed THEN ms_getc(AfterPeek(m1)) ELSE AfterPeek(m1))
              ELSE m1
        r == readIntegerLoop(m2, base, bufSize,
                             IF signed THEN <<c>> ELSE <<>>, FALSE)
    IN  [ms |-> IF r.gotDigit THEN r.ms ELSE [r.ms EXCEPT !.ptr = ms0.ptr],
         ok |-> r.gotDigit, tok |-> r.tok]

\* readIntegerToken: sign (if allowed) and digits of base 10 or 16
readIntegerToken(ms0, allowSign, base, bufSize) ==
    LET m1 == ms_skip_whitespace(ms0)
        c == ms_peek(m1)
        signed == allowSign /\ (c = "+" \/ c = "-")
        m2 == IF allowSign
              THEN (IF signed THEN ms_getc(AfterPeek(m1)) ELSE AfterPeek(m1))
              ELSE m1
        r == readIntegerLoop(m2, base, bufSize,
                             IF signed THEN <<c>> ELSE <<>>, FALSE)
    IN  [ms |-> r.ms, ok |-> r.gotDigit, tok |-> r.tok]

\* the character loop of readFloatToken
RECURSIVE readFloatLoop(_, _, _, _, _, _)
readFloatLoop(ms, bufSize, tok, gotAny, seenExponent, seenDot) ==
    IF ms_eof(ms) THEN [ms |-> ms, tok |-> tok, gotAny |-> gotAny]
    ELSE LET c == ms_peek(ms)
             isDig == isdigit(c)
             isDot == ~isDig /\ ~seenDot /\ c = "."
             isExp == ~isDig /\ ~isDot /\ ~seenExponent /\ (c = "e" \/ c = "E")
             isSgn == /\ ~isDig /\ ~isDot /\ ~isExp
                      /\ (c = "+" \/ c = "-") /\ seenExponent
                      /\ Len(tok) > 0
                      /\ (tok[Len(tok)] = "e" \/ tok[Len(tok)] = "E")
             valid == isDig \/ isDot \/ isExp \/ isSgn
         IN  IF ~valid
             THEN [ms |-> AfterPeek(ms), tok |-> tok, gotAny |-> gotAny]
             ELSE readFloatLoop(ms_getc(AfterPeek(ms)), bufSize,
                                IF Len(tok) < bufSize - 1
                                THEN Append(tok, c) ELSE tok,
                                TRUE,
                                seenExponent \/ isExp,
                                seenDot \/ isDot)

\* readFloatToken: sign, digits, one '.', one exponent marker and its sign
readFloatToken(ms0, bufSize) ==
    LET m1 == ms_skip_whitespace(ms0)
        c == ms_peek(m1)
        signed == c = "+" \/ c = "-"
        m2 == IF signed THEN ms_getc(AfterPeek(m1)) ELSE AfterPeek(m1)
        r == readFloatLoop(m2, bufSize, IF signed THEN <<c>> ELSE <<>>,
                           signed, FALSE, FALSE)
    IN  [ms |-> r.ms, ok |-> r.gotAny, tok |-> r.tok]

\* ------------------------------------------------------------------------
\* Numeric conversion of a captured token
\* ------------------------------------------------------------------------

\* one limb holds 16 bits
Limb == 65536

\* sizeof(short), sizeof(int), sizeof(long) in limbs (LP64)
ShortLimbs == 1

IntLimbs == 2

LongLimbs == 4

ZeroLimbs == <<0, 0, 0, 0>>

\* limbs * base + d over LongLimbs limbs; carry is what does not fit
RECURSIVE MulAdd(_, _, _, _)
MulAdd(limbs, i, base, carry) ==
    IF i > Len(limbs) THEN [limbs |-> limbs, carry |-> carry]
    ELSE LET t == limbs[i] * base + carry
         IN  MulAdd([limbs EXCEPT ![i] = t % Limb], i + 1, base, t \div Limb)

\* two's complement negation over the limbs
RECURSIVE Negate(_, _, _)
Negate(limbs, i, carry) ==
    IF i > Len(limbs) THEN limbs
    ELSE LET t == (Limb - 1 - limbs[i]) + carry
         IN  Negate([limbs EXCEPT ![i] = t % Limb], i + 1, t \div Limb)

\* the digits of tok from position i on that are valid in base
RECURSIVE DigitRun(_, _, _)
DigitRun(tok, i, base) ==
    IF i > Len(tok) \/ ~ValidDigit(tok[i], base) THEN <<>>
    ELSE <<tok[i]>> \o DigitRun(tok, i + 1, base)

\* accumulates a digit run; over is set once the value needs more than 64 bits
RECURSIVE Accumulate(_, _, _, _, _)
Accumulate(digs, i, base, limbs, over) ==
    IF i > Len(digs) THEN [limbs |-> limbs, over |-> over]
    ELSE LET r == MulAdd(limbs, 1, base, DigitVal(digs[i]))
         IN  Accumulate(digs, i + 1, base, r.limbs, over \/ r.carry > 0)

\* std::from_chars(tok, tok + strlen(tok), unsigned long &, base)
from_chars_unsigned(tok, base) ==
    LET digs == DigitRun(tok, 1, base)
        a == Accumulate(digs, 1, base, ZeroLimbs, FALSE)
    IN  IF Len(digs) = 0 THEN [ec |-> "invalid_argument", val |-> ZeroLimbs]
        ELSE IF a.over THEN [ec |-> "result_out_of_range", val |-> ZeroLimbs]
        ELSE [ec |-> "ok", val |-> a.limbs]

\* std::from_chars(tok, tok + strlen(tok), long &, base): '-' is the only
\* sign accepted
from_chars_signed(tok, base) ==
    LET neg == Len(tok) > 0 /\ tok[1] = "-"
        digs == DigitRun(tok, IF neg THEN 2 ELSE 1, base)
        a == Accumulate(digs, 1, base, ZeroLimbs, FALSE)
        top == a.limbs[LongLimbs]
        low0 == \A i \in 1..(LongLimbs - 1) : a.limbs[i] = 0
        fits == IF neg
                THEN top < Limb \div 2 \/ (top = Limb \div 2 /\ low0)
                ELSE top < Limb \div 2
    IN  IF Len(digs) = 0 THEN [ec |-> "invalid_argument", val |-> ZeroLimbs]
        ELSE IF a.over \/ ~fits
             THEN [ec |-> "result_out_of_range", val |-> ZeroLimbs]
        ELSE [ec |-> "ok",
              val |-> IF neg THEN Negate(a.limbs, 1, 1) ELSE a.limbs]

\* faulty variant of Narrow: a value that does not fit is clamped to the
\* largest one
Narrow_clamped(limbs, n) ==
    IF \E i \in (n + 1)..Len(limbs) : limbs[i] # 0
    THEN [i \in 1..n |-> Limb - 1]
    ELSE SubSeq(limbs, 1, n)

\* the cast (T)val to a narrower integer type of n limbs
Narrow(limbs, n) == SubSeq(limbs, 1, n)

\* atoi of a run of decimal digits (the width of '%s')
RECURSIVE atoi(_, _, _)
atoi(digs, i, acc) ==
    IF i > Len(digs) THEN acc
    ELSE atoi(digs, i + 1, acc * 10 + DigitVal(digs[i]))

\* exponents beyond this saturate: no float type reaches them
ExpCap == 9999

RECURSIVE ExpValue(_, _, _)
ExpValue(digs, i, acc) ==
    IF i > Len(digs) THEN acc
    ELSE ExpValue(digs, i + 1,
                  IF acc * 10 + DigitVal(digs[i]) > ExpCap THEN ExpCap
                  ELSE acc * 10 + DigitVal(digs[i]))

RECURSIVE StripLeadingZeros(_)
StripLeadingZeros(d) ==
    IF Len(d) > 0 /\ d[1] = "0" THEN StripLeadingZeros(Tail(d)) ELSE d

\* mantissa digits without trailing zeros, each one raising the scale
RECURSIVE StripTrailingZeros(_, _)
StripTrailingZeros(d, scale) ==
    IF Len(d) > 0 /\ d[Len(d)] = "0"
    THEN StripTrailingZeros(SubSeq(d, 1, Len(d) - 1), scale + 1)
    ELSE [mant |-> d, scale |-> scale]

\* The longest prefix of tok that is a decimal floating constant:
\* [sign] digits [. digits] [e [sign] digits], with at least one mantissa
\* digit.  len is the length of that prefix (0: none); the value is
\* (-1)^neg * mant * 10^scale, kept as the exact decimal (binary rounding
\* and overflow to infinity are not represented).

\* index of the first character after the optional sign
FloatStart(tok, allowPlus) ==
    IF Len(tok) > 0 /\ (tok[1] = "-" \/ (allowPlus /\ tok[1] = "+"))
    THEN 2 ELSE 1

\* the '.' at i1 and the digits after it
FloatFrac(tok, i1) ==
    IF i1 <= Len(tok) /\ tok[i1] = "."
    THEN [fp |-> DigitRun(tok, i1 + 1, 10), dot |-> 1]
    ELSE [fp |-> <<>>, dot |-> 0]

FloatMantissaOf(ip, i1, f) ==
    [ip |-> ip, fp |-> f.fp, i2 |-> i1 + f.dot + Len(f.fp)]

FloatMantissaAt(tok, i0, ip) ==
    FloatMantissaOf(ip, i0 + Len(ip), FloatFrac(tok, i0 + Len(ip)))

\* integer digits, fraction digits, and the index after the mantissa
FloatMantissa(tok, i0) == FloatMantissaAt(tok, i0, DigitRun(tok, i0, 10))

\* the exponent digits after the marker at i2 and sgn sign characters
FloatExpDigits(tok, i2, sgn) ==
    [ed |-> DigitRun(tok, i2 + 1 + sgn, 10),
     neg |-> sgn = 1 /\ tok[i2 + 1] = "-",
     sgn |-> sgn]

\* the exponent part at i2; it counts only when it has digits
FloatExponent(tok, i2) ==
    IF i2 <= Len(tok) /\ (tok[i2] = "e" \/ tok[i2] = "E")
    THEN FloatExpDigits(tok, i2,
             IF i2 + 1 <= Len(tok) /\ (tok[i2 + 1] = "+" \/ tok[i2 + 1] = "-")
             THEN 1 ELSE 0)
    ELSE [ed |-> <<>>, neg |-> FALSE, sgn |-> 0]

FloatValue(neg, m) == <<neg, m.mant, IF Len(m.mant) = 0 THEN 0 ELSE m.scale>>

FloatResult(tok, m, x, e) ==
    IF Len(m.ip) + Len(m.fp) = 0
    THEN [len |-> 0, val |-> <<FALSE, <<>>, 0>>]
    ELSE [len |-> IF Len(x.ed) > 0 THEN m.i2 + x.sgn + Len(x.ed) ELSE m.i2 - 1,
          val |-> FloatValue(Len(tok) > 0 /\ tok[1] = "-",
                     StripTrailingZeros(StripLeadingZeros(m.ip \o m.fp),
                                        e - Len(m.fp)))]

FloatWithExponent(tok, m, x) ==
    FloatResult(tok, m, x,
                IF Len(x.ed) = 0 THEN 0
                ELSE IF x.neg THEN 0 - ExpValue(x.ed, 1, 0)
                ELSE ExpValue(x.ed, 1, 0))

FloatFromMantissa(tok, m) == FloatWithExponent(tok, m, FloatExponent(tok, m.i2))

ParseFloat(tok, allowPlus) ==
    FloatFromMantissa(tok, FloatMantissa(tok, FloatStart(tok, allowPlus)))

\* std::from_chars(tok, tok + strlen(tok), double &, chars_format::general):
\* no leading '+'
from_chars_double(tok) ==
    LET p == ParseFloat(tok, FALSE)
    IN  [ec |-> IF p.len = 0 THEN "invalid_argument" ELSE "ok", val |-> p.val]

\* strtod / strtold on the token: endp - tok and the value
strtod(tok) ==
    LET p == ParseFloat(tok, TRUE)
    IN  [endp |-> p.len, val |-> p.val]

\* ------------------------------------------------------------------------
\* fast_fscanf_mem: parsing one conversion specifier of the format
\* ------------------------------------------------------------------------

\* *format for a format pointer; the string ends with NUL
FmtAt(i) == IF i >= 1 /\ i <= Len(format) THEN format[i] ELSE NUL

\* tok[128] of the integer cases, tok[256] of the float case
IntTokSize == 128

FloatTokSize == 256

\* width readString gets when the format gives none
DefaultStrWidth == 1024

\* widthStr[16] holds at most 15 digits
MaxWidthDigits == 15

\* skip '.' and digits after the '%'
RECURSIVE SkipPrecision(_)
SkipPrecision(i) ==
    IF FmtAt(i) = "." \/ isdigit(FmtAt(i)) THEN SkipPrecision(i + 1) ELSE i

\* the digits gathered into widthStr
RECURSIVE WidthDigits(_, _)
WidthDigits(i, wi) ==
    IF isdigit(FmtAt(i)) /\ wi < MaxWidthDigits
    THEN <<FmtAt(i)>> \o WidthDigits(i + 1, wi + 1)
    ELSE <<>>

\* The specifier whose '%' is at format index f: length modifier, string
\* width, type letter, and the format pointer after it.  spec = NUL when the
\* format ends inside the specifier (the pointer then stays on the NUL).
ParseDirective(f) ==
    LET i1 == SkipPrecision(f + 1)
        m == FmtAt(i1)
        isShort == m = "h"
        isLong == m = "l"
        isLongDouble == m = "L"
        i2 == IF isShort \/ isLong \/ isLongDouble THEN i1 + 1 ELSE i1
        wd == WidthDigits(i2, 0)
        i3 == i2 + Len(wd)
        spec == FmtAt(i3)
    IN  [isShort |-> isShort, isLong |-> isLong, isLongDouble |-> isLongDouble,
         strWidth |-> IF Len(wd) > 0 THEN atoi(wd, 1, 0) ELSE 0,
         spec |-> spec,
         next |-> IF spec = NUL THEN i3 ELSE i3 + 1]

\* faulty variant of AllowSign: a sign is accepted by every integer case
AllowSign_always(spec) == TRUE

\* allowSign argument of readIntegerToken in the cases 'd', 'u', 'x'

AllowSign(spec) == spec = "d"

\* faulty variant of BaseOf: case 'x' reads decimal
BaseOf_decimal(spec) == 10

\* base argument of readIntegerToken and from_chars in the cases 'd', 'u', 'x'

BaseOf(spec) == IF spec = "x" THEN 16 ELSE 10

\* number of limbs of the integer type the length modifier selects
IntWidth(d) ==
    IF d.isShort THEN ShortLimbs ELSE IF d.isLong THEN LongLimbs ELSE IntLimbs

\* the C type of the pointer taken with va_arg
IntType(d) ==
    LET u == IF d.spec = "d" THEN "" ELSE "unsigned "
    IN  IF d.isShort THEN u \o "short"
        ELSE IF d.isLong THEN u \o "long" ELSE u \o "int"

FloatType(d) ==
    IF d.isLongDouble THEN "long double"
    ELSE IF d.isLong THEN "double" ELSE "float"

\* value of an output variable nothing has been stored in
Unset == [type |-> "unset", val |-> <<>>]

\* *p = v for the argi-th variadic argument
Store(sl, i, type, v) ==
    IF i \in 1..Len(sl) THEN [sl EXCEPT ![i] = [type |-> type, val |-> v]]
    ELSE sl

\* cases 'd', 'u', 'x'
ConvertInteger(d, ms, sl, ai) ==
    LET r == readIntegerToken(ms, AllowSign(d.spec), BaseOf(d.spec), IntTokSize)
        fc == IF d.spec = "d" THEN from_chars_signed(r.tok, BaseOf(d.spec))
              ELSE from_chars_unsigned(r.tok, BaseOf(d.spec))
    IN  IF ~r.ok
        THEN [ms |-> r.ms, success |-> FALSE, slots |-> sl, argi |-> ai]
        ELSE IF fc.ec # "ok"
        THEN [ms |-> r.ms, success |-> FALSE, slots |-> sl, argi |-> ai + 1]
        ELSE [ms |-> r.ms, success |-> TRUE,
              slots |-> Store(sl, ai + 1, IntType(d), Narrow(fc.val, IntWidth(d))),
              argi |-> ai + 1]

\* cases 'f', 'g', 'e'
ConvertFloat(d, ms, sl, ai) ==
    LET r == readFloatToken(ms, FloatTokSize)
        fc == from_chars_double(r.tok)
        st == strtod(r.tok)
        good == IF d.isLongDouble THEN st.endp # 0
                ELSE IF fc.ec = "ok" THEN TRUE ELSE st.endp # 0
        v == IF d.isLongDouble THEN st.val
             ELSE IF fc.ec = "ok" THEN fc.val ELSE st.val
    IN  IF ~r.ok
        THEN [ms |-> r.ms, success |-> FALSE, slots |-> sl, argi |-> ai]
        ELSE IF ~good
        THEN [ms |-> r.ms, success |-> FALSE, slots |-> sl, argi |-> ai + 1]
        ELSE [ms |-> r.ms, success |-> TRUE,
              slots |-> Store(sl, ai + 1, FloatType(d), v), argi |-> ai + 1]

\* faulty variant of ConvertChar: the character is stored before the check
ConvertChar_stores_first(d, ms, sl, ai) ==
    LET r == readChar(ms)
    IN  [ms |-> r.ms, success |-> r.ok,
         slots |-> Store(sl, ai + 1, "char", <<r.out>>),
         argi |-> ai + 1]

\* case 'c'
ConvertChar(d, ms, sl, ai) ==
    LET r == readChar(ms)
    IN  [ms |-> r.ms, success |-> r.ok,
         slots |-> IF r.ok THEN Store(sl, ai + 1, "char", <<r.out>>) ELSE sl,
         argi |-> ai + 1]

\* case 's'
ConvertString(d, ms, sl, ai) ==
    LET r == readString(ms, IF d.strWidth > 0 THEN d.strWidth
                            ELSE DefaultStrWidth)
    IN  [ms |-> r.ms, success |-> r.ok,
         slots |-> IF Len(r.dest) > 0 THEN Store(sl, ai + 1, "char[]", r.dest)
                   ELSE sl,
         argi |-> ai + 1]

\* faulty variant of Convert: an unsupported type letter counts as matched
Convert_default_succeeds(d, ms, sl, ai) ==
    IF d.spec \in {"d", "u", "x"} THEN ConvertInteger(d, ms, sl, ai)
    ELSE IF d.spec \in {"f", "g", "e"} THEN ConvertFloat(d, ms, sl, ai)
    ELSE IF d.spec = "c" THEN ConvertChar(d, ms, sl, ai)
    ELSE IF d.spec = "s" THEN ConvertString(d, ms, sl, ai)
    ELSE [ms |-> ms, success |-> TRUE, slots |-> sl, argi |-> ai]

\* switch (spec)
Convert(d, ms, sl, ai) ==
    IF d.spec \in {"d", "u", "x"} THEN ConvertInteger(d, ms, sl, ai)
    ELSE IF d.spec \in {"f", "g", "e"} THEN ConvertFloat(d, ms, sl, ai)
    ELSE IF d.spec = "c" THEN ConvertChar(d, ms, sl, ai)
    ELSE IF d.spec = "s" THEN ConvertString(d, ms, sl, ai)
    ELSE [ms |-> ms, success |-> FALSE, slots |-> sl, argi |-> ai]

\* The branch for a '\n' of the format: consume input up to and including a
\* newline; stop, after ms_ungetc, on a character that is not whitespace.
RECURSIVE MatchNewline(_)
MatchNewline(ms) ==
    IF ms_eof(ms) THEN ms
    ELSE LET c == ms_peek(ms)
             m1 == ms_getc(ms)
         IN  IF c = "\n" THEN m1
             ELSE IF ~isspace(c) THEN ms_ungetc(m1)
             ELSE MatchNewline(m1)

\* The branch for a literal character: matched tells whether the loop goes on
MatchLiteral(ms, expected) ==
    LET m1 == ms_skip_whitespace(ms)
        c == ms_peek(m1)
        m2 == ms_getc(m1)
    IN  IF ms_eof(m1) THEN [ms |-> m1, matched |-> FALSE, at |-> m1.ptr]
        ELSE IF c # expected
             THEN [ms |-> ms_ungetc(m2), matched |-> FALSE, at |-> m1.ptr]
        ELSE [ms |-> m2, matched |-> TRUE, at |-> m1.ptr]

\* ------------------------------------------------------------------------
\* The state machine: the caller's loop around fast_fscanf_mem, and the
\* format loop inside it
\* ------------------------------------------------------------------------

\* the scanner of the current state
Ms == [ptr |-> ptr, rd |-> reads]

\* number of '%' in a format: the output variables the caller passes, and
\* the count the caller's loop expects
RECURSIVE CountPercent(_, _)
CountPercent(f, i) ==
    IF i > Len(f) THEN 0
    ELSE (IF f[i] = "%" THEN 1 ELSE 0) + CountPercent(f, i + 1)

Expected == CountPercent(format, 1)

\* history entry for one directive of the format
Entry(kind, d, next, m0, m1, ok, at) ==
    [kind |-> kind, fstart |-> fpos, fnext |-> next, spec |-> d.spec,
     isShort |-> d.isShort, isLong |-> d.isLong,
     isLongDouble |-> d.isLongDouble, strWidth |-> d.strWidth,
     pstart |-> m0.ptr, pend |-> m1.ptr, ok |-> ok, at |-> at,
     before |-> matchedCount, slot |-> argi + 1]

NoDirective(c) ==
    [isShort |-> FALSE, isLong |-> FALSE, isLongDouble |-> FALSE,
     strWidth |-> 0, spec |-> c, next |-> fpos + 1]

\* the second invocation when there is none.  amidCall and amidReturn are
\* history: the first invocation was inside its format loop, with directives
\* done and directives to do, when the second was entered and when it left
NoOther ==
    [pc |-> "none", offset |-> 0, start |-> 0, slots |-> <<>>, ptr |-> 0,
     fpos |-> 1, argi |-> 0, matchedCount |-> 0, ret |-> 0,
     amidCall |-> FALSE, amidReturn |-> FALSE]

\* the first invocation is inside its format loop
Amid == pc = "loop" /\ Len(trace) >= 1 /\ FmtAt(fpos) # NUL

\* entry of fast_fscanf_mem: build the scanner at buffer + *offset
Call ==
    /\ pc = "idle"
    /\ pc' = "loop"
    /\ ptr' = offset
    /\ fpos' = 1
    /\ argi' = 0
    /\ matchedCount' = 0
    /\ calls' = calls + 1
    /\ reads' = {}
    /\ trace' = <<>>
    /\ startOffset' = offset
    /\ UNCHANGED <<buffer, size, format, offset, slots, ret, results, other>>

\* faulty variant of Counted: the count rises on failure too
Counted_always(success, n) == n + 1

\* if (success) matchedCount++

Counted(success, n) == IF success THEN n + 1 ELSE n

\* one iteration of the format loop on a '%': a conversion specifier
StepConversion ==
    /\ pc = "loop"
    /\ FmtAt(fpos) = "%"
    /\ LET d == ParseDirective(fpos)
           r == IF d.spec = NUL
                THEN [ms |-> Ms, success |-> FALSE, slots |-> slots, argi |-> argi]
                ELSE Convert(d, Ms, slots, argi)
       IN  /\ ptr' = r.ms.ptr
           /\ reads' = r.ms.rd
           /\ slots' = r.slots
           /\ argi' = r.argi
           /\ fpos' = d.next
           /\ matchedCount' = Counted(r.success, matchedCount)
           /\ pc' = IF r.success THEN "loop" ELSE "break"
           /\ trace' = Append(trace, Entry("conv", d, d.next, Ms, r.ms, r.success, -1))
    /\ UNCHANGED <<buffer, size, format, offset, ret, calls, startOffset, results, other>>

\* one iteration on a whitespace character of the format
StepWhitespace ==
    /\ pc = "loop"
    /\ FmtAt(fpos) # "%"
    /\ FmtAt(fpos) # NUL
    /\ isspace(FmtAt(fpos))
    /\ LET m1 == ms_skip_whitespace(Ms)
       IN  /\ ptr' = m1.ptr
           /\ reads' = m1.rd
           /\ trace' = Append(trace, Entry("space", NoDirective(FmtAt(fpos)),
                                           fpos + 1, Ms, m1, TRUE, -1))
    /\ fpos' = fpos + 1
    /\ UNCHANGED <<buffer, size, format, offset, slots, argi, matchedCount, pc,
                   ret, calls, startOffset, results, other>>

\* one iteration on any other character of the format: the '\n' branch,
\* then the literal branch
StepLiteral ==
    /\ pc = "loop"
    /\ FmtAt(fpos) # "%"
    /\ FmtAt(fpos) # NUL
    /\ ~isspace(FmtAt(fpos))
    /\ LET c == FmtAt(fpos)
           nl == MatchNewline(Ms)
           lit == MatchLiteral(Ms, c)
           m1 == IF c = "\n" THEN nl ELSE lit.ms
           ok == IF c = "\n" THEN TRUE ELSE lit.matched
       IN  /\ ptr' = m1.ptr
           /\ reads' = m1.rd
           /\ pc' = IF ok THEN "loop" ELSE "break"
           /\ trace' = Append(trace,
                  Entry(IF c = "\n" THEN "newline" ELSE "literal",
                        NoDirective(c), fpos + 1, Ms, m1, ok,
                        IF c = "\n" THEN -1 ELSE lit.at))
    /\ fpos' = fpos + 1
    /\ UNCHANGED <<buffer, size, format, offset, slots, argi, matchedCount,
                   ret, calls, startOffset, results, other>>

\* the format loop is left: by break, or because *format is NUL
LoopLeft == IF pc = "break" THEN TRUE ELSE pc = "loop" /\ FmtAt(fpos) = NUL

\* faulty variant of Return_offset: *offset is not updated
Return_keeps_offset == offset

\* the value stored in *offset: ms.ptr - buffer
Return_offset == ptr

\* *offset = ms.ptr - buffer; return matchedCount

Return ==
    /\ LoopLeft
    /\ pc' = "done"
    /\ offset' = Return_offset
    /\ ret' = matchedCount
    /\ results' = Append(results, [ret |-> matchedCount, start |-> startOffset,
                                   offset |-> Return_offset, slots |-> slots])
    /\ UNCHANGED <<buffer, size, format, slots, ptr, fpos, argi, matchedCount,
                   calls, reads, trace, startOffset, other>>

\* the caller's loop: while (fast_fscanf_mem(...) == expected count)
Reinvoke ==
    /\ pc = "done"
    /\ ret = Expected
    /\ calls < MaxCalls
    /\ pc' = "idle"
    /\ UNCHANGED <<buffer, size, format, offset, slots, ptr, fpos, argi,
                   matchedCount, ret, calls, reads, trace, startOffset, results, other>>

Next == Call \/ StepConversion \/ StepWhitespace \/ StepLiteral \/ Return \/ Reinvoke

\* ------------------------------------------------------------------------
\* Inputs
\* ------------------------------------------------------------------------

\* all sequences over A of length at most n
Seqs(A, n) == UNION {[1..k -> A] : k \in 0..n}

\* the record format of the usage example and of the benchmark
RecordFormat ==
    <<
      ":", "%", "x", "[", "%", "h", "d", "]", "(", " ", "%", "h", "d", " ",
      "%", "h", "u", " ", "%", "d", " ", "%", "x", " ", "%", "l", "x", " ",
      "%", "f", " ", "%", "L", "f", " ", "%", "s", " ", "%", "h", "d", "/",
      "%", "h", "d", "/", "%", "h", "d", " ", "%", "h", "d", ":", "%", "h",
      "d", ":", "%", "h", "d", "\n"
    >>

\* two well-formed records, as create_test_file writes them
Record1 ==
    <<
      ":", "1", "a", "[", "5", "]", "(", " ", "3", " ", "7", " ", "4", "2",
      " ", "f", "f", " ", "2", "b", "3", " ", "1", ".", "5", " ", "2", ".",
      "2", "5", " ", "t", "o", "k", " ", "0", "1", "/", "0", "2", "/", "2",
      "0", "2", "4", " ", "0", "9", ":", "3", "0", ":", "0", "0", "\n"
    >>

Record2 ==
    <<
      ":", "2", "[", "6", "]", "(", " ", "-", "3", " ", "8", " ", "-", "4",
      "2", " ", "1", "F", " ", "a", "0", " ", "0", ".", "5", " ", "1", "e",
      "2", " ", "a", "b", "c", " ", "3", "1", "/", "1", "2", "/", "1", "9",
      "9", "9", " ", "2", "3", ":", "5", "9", ":", "5", "9", "\n"
    >>

\* Record1 without its newline, with blanks before the newline, and with a
\* wrong bracket
Record1Cut == SubSeq(Record1, 1, Len(Record1) - 1)

Record1Blank == Record1Cut \o <<" ", " ", "\n">>

Record1Bad == [Record1 EXCEPT ![4] = "{"]

RecordBuffers ==
    {Record1, Record2, Record1 \o Record2, Record2 \o Record1,
     Record1 \o Record1, Record1Cut, Record1Blank, Record1Bad,
     Record1 \o Record1Cut, Record1Blank \o Record2}

IntegerFormats ==
    {
      <<"%", "d">>, <<"%", "h", "d">>, <<"%", "l", "d">>, <<"%", "u">>,
      <<"%", "h", "u">>, <<"%", "l", "u">>, <<"%", "x">>, <<"%", "h", "x">>,
      <<"%", "l", "x">>, <<"%", "d", "%", "u">>
    }

StringFormats ==
    {
      <<"%", "s">>, <<"%", "3", "s">>, <<"%", "2", "s">>,
      <<"%", "l", "2", "s">>, <<"%", "h", "3", "s">>, <<"%", "l", "1", "s">>,
      <<"%", "c">>, <<"%", "c", "%", "c">>, <<"%", "s", "%", "s">>,
      <<"%", "2", "s", "%", "c">>
    }

LiteralFormats ==
    {
      <<":">>, <<" ", ":">>, <<":", "%", "d">>, <<"%", "d", ":">>,
      <<"%", "d", ":", "%", "d">>, <<"\n">>, <<"%", "d", "\n">>,
      <<"%", "d", "\n", "%", "d">>, <<"%", "d", " ", "\n">>, <<":", "\n">>,
      <<"x", ":">>, <<"%", "d", "\n", ":">>
    }

FloatFormats ==
    {
      <<"%", "f">>, <<"%", "l", "f">>, <<"%", "L", "f">>, <<"%", "g">>,
      <<"%", "e">>, <<"%", "f", "%", "f">>
    }

UnsupportedFormats ==
    {
      <<"%", "*", "d">>, <<"%", "o">>, <<"%">>, <<"%", "%">>,
      <<"%", "3", "d">>, <<"%", "o", "%", "d">>, <<"%", "*", "d", "%", "d">>,
      <<"%", "3", "d", "%", "d">>, <<"%", "d", "%", "o">>,
      <<"%", "3", "h", "d">>, <<"%", ".", "2", "f">>, <<"%", "h">>,
      <<"%", "d", "%">>, <<"%", "3", "u">>, <<"%", "2", "x">>, <<"%", "3", "d", "%", "o">>
    }

\* ------------------------------------------------------------------------
\* Integer tokens near the limits of the integer types
\* ------------------------------------------------------------------------

WideShort ==
    <<"7", "0", "0", "0", "0">>

WideNegShort ==
    <<"-", "3", "2", "7", "6", "9">>

WideInt ==
    <<"4", "2", "9", "4", "9", "6", "7", "2", "9", "6">>

WideLongMax ==
    <<"9", "2", "2", "3", "3", "7", "2", "0", "3", "6", "8", "5", "4", "7", "7", "5", "8", "0", "7">>

WideLongOver ==
    <<"9", "2", "2", "3", "3", "7", "2", "0", "3", "6", "8", "5", "4", "7", "7", "5", "8", "0", "8">>

WideLongMin ==
    <<"-", "9", "2", "2", "3", "3", "7", "2", "0", "3", "6", "8", "5", "4", "7", "7", "5", "8", "0", "8">>

WideLongUnder ==
    <<"-", "9", "2", "2", "3", "3", "7", "2", "0", "3", "6", "8", "5", "4", "7", "7", "5", "8", "0", "9">>

WideULongMax ==
    <<"1", "8", "4", "4", "6", "7", "4", "4", "0", "7", "3", "7", "0", "9", "5", "5", "1", "6", "1", "5">>

WideULongOver ==
    <<"1", "8", "4", "4", "6", "7", "4", "4", "0", "7", "3", "7", "0", "9", "5", "5", "1", "6", "1", "6">>

WideHexMax ==
    <<"f", "f", "f", "f", "f", "f", "f", "f", "f", "f", "f", "f", "f", "f", "f", "f">>

WideHexOver ==
    <<"1", "0", "0", "0", "0", "0", "0", "0", "0", "0", "0", "0", "0", "0", "0", "0", "0">>

WideTexts ==
    {WideShort, WideNegShort, WideInt, WideLongMax, WideLongOver,
     WideLongMin, WideLongUnder, WideULongMax, WideULongOver,
     WideHexMax, WideHexOver}

\* What converting each text gives, worked out outside the model: for the
\* signed decimal, unsigned decimal and hexadecimal reading, whether the text is a
\* token of that reading (valid), whether its value fits 64 bits (ok), and
\* that value as a 64-bit two's complement number in limbs.
WideExpected ==
    <<
      [text |-> WideShort,
       d |-> [valid |-> TRUE, ok |-> TRUE, limbs |-> <<4464, 1, 0, 0>>],
       u |-> [valid |-> TRUE, ok |-> TRUE, limbs |-> <<4464, 1, 0, 0>>],
       x |-> [valid |-> TRUE, ok |-> TRUE, limbs |-> <<0, 7, 0, 0>>]],
      [text |-> WideNegShort,
       d |-> [valid |-> TRUE, ok |-> TRUE, limbs |-> <<32767, 65535, 65535, 65535>>],
       u |-> [valid |-> FALSE, ok |-> FALSE, limbs |-> <<0, 0, 0, 0>>],
       x |-> [valid |-> FALSE, ok |-> FALSE, limbs |-> <<0, 0, 0, 0>>]],
      [text |-> WideInt,
       d |-> [valid |-> TRUE, ok |-> TRUE, limbs |-> <<0, 0, 1, 0>>],
       u |-> [valid |-> TRUE, ok |-> TRUE, limbs |-> <<0, 0, 1, 0>>],
       x |-> [valid |-> TRUE, ok |-> TRUE, limbs |-> <<29334, 38038, 66, 0>>]],
      [text |-> WideLongMax,
       d |-> [valid |-> TRUE, ok |-> TRUE, limbs |-> <<65535, 65535, 65535, 32767>>],
       u |-> [valid |-> TRUE, ok |-> TRUE, limbs |-> <<65535, 65535, 65535, 32767>>],
       x |-> [valid |-> TRUE, ok |-> FALSE, limbs |-> <<0, 0, 0, 0>>]],
      [text |-> WideLongOver,
       d |-> [valid |-> TRUE, ok |-> FALSE, limbs |-> <<0, 0, 0, 0>>],
       u |-> [valid |-> TRUE, ok |-> TRUE, limbs |-> <<0, 0, 0, 32768>>],
       x |-> [valid |-> TRUE, ok |-> FALSE, limbs |-> <<0, 0, 0, 0>>]],
      [text |-> WideLongMin,
       d |-> [valid |-> TRUE, ok |-> TRUE, limbs |-> <<0, 0, 0, 32768>>],
       u |-> [valid |-> FALSE, ok |-> FALSE, limbs |-> <<0, 0, 0, 0>>],
       x |-> [valid |-> FALSE, ok |-> FALSE, limbs |-> <<0, 0, 0, 0>>]],
      [text |-> WideLongUnder,
       d |-> [valid |-> TRUE, ok |-> FALSE, limbs |-> <<0, 0, 0, 0>>],
       u |-> [valid |-> FALSE, ok |-> FALSE, limbs |-> <<0, 0, 0, 0>>],
       x |-> [valid |-> FALSE, ok |-> FALSE, limbs |-> <<0, 0, 0, 0>>]],
      [text |-> WideULongMax,
       d |-> [valid |-> TRUE, ok |-> FALSE, limbs |-> <<0, 0, 0, 0>>],
       u |-> [valid |-> TRUE, ok |-> TRUE, limbs |-> <<65535, 65535, 65535, 65535>>],
       x |-> [valid |-> TRUE, ok |-> FALSE, limbs |-> <<0, 0, 0, 0>>]],
      [text |-> WideULongOver,
       d |-> [valid |-> TRUE, ok |-> FALSE, limbs |-> <<0, 0, 0, 0>>],
       u |-> [valid |-> TRUE, ok |-> FALSE, limbs |-> <<0, 0, 0, 0>>],
       x |-> [valid |-> TRUE, ok |-> FALSE, limbs |-> <<0, 0, 0, 0>>]],
      [text |-> WideHexMax,
       d |-> [valid |-> FALSE, ok |-> FALSE, limbs |-> <<0, 0, 0, 0>>],
       u |-> [valid |-> FALSE, ok |-> FALSE, limbs |-> <<0, 0, 0, 0>>],
       x |-> [valid |-> TRUE, ok |-> TRUE, limbs |-> <<65535, 65535, 65535, 65535>>]],
      [text |-> WideHexOver,
       d |-> [valid |-> TRUE, ok |-> TRUE, limbs |-> <<0, 28609, 34546, 35>>],
       u |-> [valid |-> TRUE, ok |-> TRUE, limbs |-> <<0, 28609, 34546, 35>>],
       x |-> [valid |-> TRUE, ok |-> FALSE, limbs |-> <<0, 0, 0, 0>>]]
    >>

\* The families of inputs: each has its formats and its buffer texts
FamilyNames ==
    {"integer", "string", "literal", "float", "unsupported", "record", "wide"}

FormatsOf(fam) ==
    CASE fam = "integer" -> IntegerFormats
      [] fam = "string" -> StringFormats
      [] fam = "literal" -> LiteralFormats
      [] fam = "float" -> FloatFormats
      [] fam = "unsupported" -> UnsupportedFormats
      [] fam = "record" -> {RecordFormat}
      [] fam = "wide" -> IntegerFormats

TextsOf(fam) ==
    CASE fam = "integer" -> Seqs({"1", "a", "+", "-", " "}, MaxLen)
      [] fam = "string" -> Seqs({"a", "b", " ", "\n"}, MaxLen)
      [] fam = "literal" -> Seqs({":", "1", " ", "\n", "x"}, MaxLen)
      [] fam = "float" -> Seqs({"1", ".", "e", "-", "+"}, MaxLen)
      [] fam = "unsupported" -> Seqs({"1", "7", " "}, MaxLen)
      [] fam = "record" -> RecordBuffers
      [] fam = "wide" -> WideTexts

\* a call on a record buffer or on a wide token starts at offset 0; the
\* others start anywhere
StartsOf(fam, n) == IF fam \in {"record", "wide"} THEN {0} ELSE 0..n

\* the caller may pass the whole allocation or leave its last byte out
Sizes(b) == {n \in {Len(b) - 1, Len(b)} : n >= 0}

Init ==
    /\ \E fam \in FamilyNames :
          /\ format \in FormatsOf(fam)
          /\ buffer \in TextsOf(fam)
          /\ size \in Sizes(buffer)
          /\ offset \in StartsOf(fam, size)
    /\ slots = [i \in 1..CountPercent(format, 1) |-> Unset]
    /\ ptr = 0
    /\ fpos = 1
    /\ argi = 0
    /\ matchedCount = 0
    /\ pc = "idle"
    /\ ret = 0
    /\ calls = 0
    /\ reads = {}
    /\ trace = <<>>
    /\ startOffset = offset
    /\ results = <<>>
    /\ other = NoOther

Spec == Init /\ [][Next]_vars

\* ------------------------------------------------------------------------
\* Reference definitions on the input text, used to state the properties
\* ------------------------------------------------------------------------

LastEntry == trace[Len(trace)]

\* index of the first character at or after i that is not whitespace (size
\* when there is none)
SkipSpaces(i) ==
    CHOOSE j \in i..size :
        /\ \A k \in i..(j - 1) : isspace(MemAt(k))
        /\ (j = size \/ ~isspace(MemAt(j)))

\* index just past the run of non-whitespace characters that starts at i
TokenEnd(i) ==
    CHOOSE j \in i..size :
        /\ \A k \in i..(j - 1) : ~isspace(MemAt(k))
        /\ (j = size \/ isspace(MemAt(j)))

\* the buffer text in [i, j)
Text(i, j) == SubSeq(buffer, i + 1, j)

\* the width written between the '%' at f and an 's' (0: none is written)
WrittenStringWidth(f) ==
    LET digs == DigitRun(format, f + 1, 10)
    IN  IF Len(digs) > 0 /\ FmtAt(f + 1 + Len(digs)) = "s"
        THEN atoi(digs, 1, 0) ELSE 0

\* the values the sixteen conversions of RecordFormat give for Record1
Decoded1 ==
    <<[type |-> "unsigned int", val |-> <<26, 0>>],
      [type |-> "short", val |-> <<5>>],
      [type |-> "short", val |-> <<3>>],
      [type |-> "unsigned short", val |-> <<7>>],
      [type |-> "int", val |-> <<42, 0>>],
      [type |-> "unsigned int", val |-> <<255, 0>>],
      [type |-> "unsigned long", val |-> <<691, 0, 0, 0>>],
      [type |-> "float", val |-> <<FALSE, <<"1", "5">>, -1>>],
      [type |-> "long double", val |-> <<FALSE, <<"2", "2", "5">>, -2>>],
      [type |-> "char[]", val |-> <<"t", "o", "k">>],
      [type |-> "short", val |-> <<1>>],
      [type |-> "short", val |-> <<2>>],
      [type |-> "short", val |-> <<2024>>],
      [type |-> "short", val |-> <<9>>],
      [type |-> "short", val |-> <<30>>],
      [type |-> "short", val |-> <<0>>]>>

\* and for Record2
Decoded2 ==
    <<[type |-> "unsigned int", val |-> <<2, 0>>],
      [type |-> "short", val |-> <<6>>],
      [type |-> "short", val |-> <<65533>>],
      [type |-> "unsigned short", val |-> <<8>>],
      [type |-> "int", val |-> <<65494, 65535>>],
      [type |-> "unsigned int", val |-> <<31, 0>>],
      [type |-> "unsigned long", val |-> <<160, 0, 0, 0>>],
      [type |-> "float", val |-> <<FALSE, <<"5">>, -1>>],
      [type |-> "long double", val |-> <<FALSE, <<"1">>, 2>>],
      [type |-> "char[]", val |-> <<"a", "b", "c">>],
      [type |-> "short", val |-> <<31>>],
      [type |-> "short", val |-> <<12>>],
      [type |-> "short", val |-> <<1999>>],
      [type |-> "short", val |-> <<23>>],
      [type |-> "short", val |-> <<59>>],
      [type |-> "short", val |-> <<59>>]>>

RecordOf(n) == IF n = 1 THEN Record1 ELSE Record2

DecodedOf(n) == IF n = 1 THEN Decoded1 ELSE Decoded2

\* ------------------------------------------------------------------------
\* Properties
\* ------------------------------------------------------------------------

\* C1: when a call halts on a literal (or newline) mismatch, the offset it
\* writes back is the index of the mismatching character: that character is
\* not consumed.
C1_MismatchNotConsumed ==
    (/\ pc = "done"
     /\ Len(trace) > 0
     /\ LastEntry.kind \in {"literal", "newline"}
     /\ ~LastEntry.ok
     /\ SkipSpaces(LastEntry.pstart) < size)
    => offset = SkipSpaces(LastEntry.pstart)

\* C2: a string directive whose width N is written in the format (%3s), on
\* a token longer than N-1 characters, stores exactly the first N-1
\* characters and moves the cursor past the whole token.
C2_WrittenWidthTruncates ==
    pc = "done" =>
        \A k \in 1..Len(trace) :
            LET e == trace[k]
                n == WrittenStringWidth(e.fstart)
                t == SkipSpaces(e.pstart)
            IN  (/\ e.kind = "conv"
                 /\ n > 0
                 /\ t < size
                 /\ TokenEnd(t) - t > n - 1)
                => /\ e.pend = TokenEnd(t)
                   /\ slots[e.slot] = [type |-> "char[]",
                                       val |-> Text(t, t + n - 1)]

\* C3: the record format over Record1 from offset 0 returns 16, stores
\* 0x1a, 5, 0x2b3 and "tok" in slots 1, 2, 7 and 10, and leaves the offset
\* at the length of the record.
C3_RecordScenario ==
    (/\ pc = "done"
     /\ format = RecordFormat
     /\ buffer = Record1
     /\ size = Len(Record1)
     /\ startOffset = 0)
    => /\ ret = 16
       /\ slots[1] = [type |-> "unsigned int", val |-> <<26, 0>>]
       /\ slots[2] = [type |-> "short", val |-> <<5>>]
       /\ slots[7] = [type |-> "unsigned long", val |-> <<691, 0, 0, 0>>]
       /\ slots[10] = [type |-> "char[]", val |-> <<"t", "o", "k">>]
       /\ offset = Len(Record1)

C3_Witness ==
    /\ pc = "done"
    /\ format = RecordFormat
    /\ buffer = Record1
    /\ size = Len(Record1)
    /\ startOffset = 0
    /\ Len(trace) > 16

\* C4: a call entered with the offset at the end of the buffer (a buffer of
\* size 0 included) returns 0, reads no byte of the buffer and leaves the
\* offset at size, whatever the format.
C4_AtEndOfBuffer ==
    (pc = "done" /\ startOffset = size)
    => /\ ret = 0
       /\ reads = {}
       /\ offset = size

C4_Witness ==
    /\ pc = "done"
    /\ startOffset = size
    /\ size > 0
    /\ Len(trace) > 0
    /\ LastEntry.kind = "conv"

\* C5: an unsigned or hexadecimal directive that meets '+' or '-' as first
\* character after whitespace does not match: nothing of the sign or after
\* it is consumed, the count stays, and the scan halts there.
C5_SignRejected ==
    \A k \in 1..Len(trace) :
        LET e == trace[k]
            t == SkipSpaces(e.pstart)
        IN  (/\ e.kind = "conv"
             /\ e.spec \in {"u", "x"}
             /\ t < size
             /\ MemAt(t) \in {"+", "-"})
            => /\ ~e.ok
               /\ e.pend = t
               /\ k = Len(trace)
               /\ pc \in {"break", "done"}
               /\ matchedCount = e.before
               /\ (pc = "done" => ret = e.before /\ offset = t)

C5_Witness ==
    /\ pc = "done"
    /\ Len(trace) = 2
    /\ LastEntry.spec = "u"
    /\ LastEntry.pstart < size
    /\ MemAt(LastEntry.pstart) = "+"
    /\ ret = 1

\* C6: on a buffer made of two well-formed records, two calls threading
\* the offset from 0 each return 16, decode the first and then the second
\* record, and leave the offset after the first and after the second.
C6_Resumption ==
    \A a \in {1, 2}, b \in {1, 2} :
        (/\ format = RecordFormat
         /\ buffer = RecordOf(a) \o RecordOf(b)
         /\ size = Len(buffer))
        => /\ Len(results) >= 1 =>
                results[1] = [ret |-> 16, start |-> 0,
                              offset |-> Len(RecordOf(a)),
                              slots |-> DecodedOf(a)]
           /\ Len(results) >= 2 =>
                results[2] = [ret |-> 16, start |-> Len(RecordOf(a)),
                              offset |-> Len(RecordOf(a)) + Len(RecordOf(b)),
                              slots |-> DecodedOf(b)]

C6_Witness ==
    /\ format = RecordFormat
    /\ buffer = Record1 \o Record2
    /\ size = Len(buffer)
    /\ Len(results) = 2
    /\ pc = "done"
    /\ offset = size

\* the text from the first non-blank at or after i to the end of the buffer
\* is one token of the conversion spec (an integer of at most 18 digits)
TailIsToken(spec, i) ==
    LET t == SkipSpaces(i)
        d == IF spec = "d" /\ t < size /\ MemAt(t) = "-" THEN t + 1 ELSE t
    IN  CASE spec = "d" ->
               /\ d < size
               /\ size - d <= 18
               /\ \A k \in d..(size - 1) : isdigit(MemAt(k))
          [] spec = "u" ->
               /\ t < size
               /\ size - t <= 18
               /\ \A k \in t..(size - 1) : isdigit(MemAt(k))
          [] spec = "x" ->
               /\ t < size
               /\ size - t <= 15
               /\ \A k \in t..(size - 1) : isxdigit(MemAt(k))
          [] spec = "s" ->
               /\ t < size
               /\ \A k \in t..(size - 1) : ~isspace(MemAt(k))
          [] spec = "c" -> i = size - 1
          [] OTHER -> FALSE

\* C7: when the format ends with a newline and the buffer ends right after
\* the token of the last conversion, that conversion matches and the call
\* returns the number of all conversions of the format.
C7_MissingFinalNewline ==
    \A k \in 1..Len(trace) :
        LET e == trace[k]
        IN  (/\ e.kind = "conv"
             /\ e.fnext = Len(format)
             /\ format[Len(format)] = "\n"
             /\ TailIsToken(e.spec, e.pstart))
            => /\ e.ok
               /\ e.pend = size
               /\ pc # "break"
               /\ (pc = "done" => ret = CountPercent(format, 1) /\ offset = size)

C7_Witness ==
    /\ pc = "done"
    /\ format = RecordFormat
    /\ buffer = Record1Cut
    /\ size = Len(buffer)
    /\ startOffset = 0
    /\ LastEntry.kind = "space"
    /\ LastEntry.spec = "\n"
    /\ LastEntry.pstart = size
    /\ trace[Len(trace) - 1].kind = "conv"
    /\ trace[Len(trace) - 1].fnext = Len(format)
    /\ TailIsToken(trace[Len(trace) - 1].spec, trace[Len(trace) - 1].pstart)
    /\ ret = 16

\* the directive whose '%' is at f uses assignment suppression or octal
SuppressedOrOctal(f, spec) == FmtAt(f + 1) = "*" \/ spec = "o"

\* the directive whose '%' is at f writes a width before an integer
\* conversion
WidthOnInteger(f, spec) == isdigit(FmtAt(f + 1)) /\ spec \in {"d", "u", "x"}

\* C8 as stated: a directive with assignment suppression, octal, or a field
\* width on a non-string conversion halts the scan: not counted, nothing
\* consumed, nothing after it matched.
C8_UnsupportedHalts ==
    \A k \in 1..Len(trace) :
        LET e == trace[k]
        IN  (/\ e.kind = "conv"
             /\ (SuppressedOrOctal(e.fstart, e.spec)
                    \/ WidthOnInteger(e.fstart, e.spec)))
            => /\ ~e.ok
               /\ e.pend = e.pstart
               /\ k = Len(trace)
               /\ matchedCount = e.before

\* C8 amended: assignment suppression and octal halt the scan (not counted,
\* nothing consumed, nothing after matched); a width written before an
\* integer conversion is skipped, and on input that starts (after blanks)
\* with a decimal digit the directive matches as the plain conversion and
\* consumes the whole run of digits of its base (at most 15 of them).
C8_SuppressedOctalHalt_WidthIgnored ==
    \A k \in 1..Len(trace) :
        LET e == trace[k]
            t == SkipSpaces(e.pstart)
            n == Len(DigitRun(buffer, t + 1, BaseOf(e.spec)))
            run == IF t + n <= size THEN n ELSE size - t
        IN  /\ (e.kind = "conv" /\ SuppressedOrOctal(e.fstart, e.spec))
               => /\ ~e.ok
                  /\ e.pend = e.pstart
                  /\ k = Len(trace)
                  /\ pc \in {"break", "done"}
                  /\ matchedCount = e.before
                  /\ (pc = "done" => ret = e.before)
            /\ (/\ e.kind = "conv"
                /\ WidthOnInteger(e.fstart, e.spec)
                /\ t < size
                /\ isdigit(MemAt(t))
                /\ run <= 15)
               => /\ e.ok
                  /\ e.pend = t + run
                  /\ matchedCount >= e.before + 1

C8_Witness ==
    /\ pc = "done"
    /\ Len(trace) = 2
    /\ WidthOnInteger(trace[1].fstart, trace[1].spec)
    /\ trace[1].ok
    /\ trace[1].pend - trace[1].pstart = 2
    /\ trace[2].spec = "o"
    /\ trace[2].pstart < size
    /\ ret = 1

\* C9: during a call the cursor stays between the start offset and size,
\* and every buffer index the call reads is below size.
C9_WithinBuffer ==
    calls > 0 =>
        /\ startOffset <= ptr
        /\ ptr <= size
        /\ \A i \in reads : 0 <= i /\ i < size

C9_Witness ==
    /\ pc = "loop"
    /\ Len(buffer) > size
    /\ ptr = size
    /\ size - 1 \in reads
    /\ FmtAt(fpos) = "%"

\* number of '%' among the first n characters of the format
PercentsBefore(n) == CountPercent(SubSeq(format, 1, n), 1)

\* C10: the value returned is the number of conversion directives before
\* the first unmatched directive (all of them if none fails); the scan
\* stops at that directive, and only conversions change the count.
C10_CountUpToFirstFailure ==
    /\ \A k \in 1..Len(trace) :
          /\ trace[k].fstart = IF k = 1 THEN 1 ELSE trace[k - 1].fnext
          /\ k < Len(trace) => trace[k].ok
          /\ trace[k].before = PercentsBefore(trace[k].fstart - 1)
    /\ pc = "done" =>
          /\ ret = Cardinality({k \in 1..Len(trace) :
                                   trace[k].kind = "conv" /\ trace[k].ok})
          /\ IF Len(trace) > 0 /\ ~LastEntry.ok
             THEN ret = PercentsBefore(LastEntry.fstart - 1)
             ELSE /\ ret = CountPercent(format, 1)
                  /\ fpos = Len(format) + 1

C10_Witness ==
    /\ pc = "done"
    /\ Len(trace) = 3
    /\ trace[1].kind = "conv"
    /\ trace[2].kind = "literal"
    /\ trace[3].kind = "conv"
    /\ ~trace[3].ok
    /\ trace[3].pend > trace[3].pstart
    /\ ret = 1

\* the output variables as they were when the current call was entered
SlotsBefore ==
    IF pc = "done"
    THEN (IF Len(results) >= 2 THEN results[Len(results) - 1].slots
          ELSE [i \in 1..Len(slots) |-> Unset])
    ELSE (IF Len(results) >= 1 THEN results[Len(results)].slots
          ELSE [i \in 1..Len(slots) |-> Unset])

\* value of a run of a few digits in plain integers
RECURSIVE RefNat(_, _, _, _)
RefNat(digs, i, base, acc) ==
    IF i > Len(digs) THEN acc
    ELSE RefNat(digs, i + 1, base, acc * base + DigitVal(digs[i]))

\* the n-limb two's complement object that holds v, for |v| < Limb
RefLimbs(v, n) ==
    IF v >= 0 THEN [i \in 1..n |-> IF i = 1 THEN v ELSE 0]
    ELSE [i \in 1..n |-> IF i = 1 THEN Limb + v ELSE Limb - 1]

\* the integer a token text denotes: optional '-', then digits
RefInt(text, base) ==
    IF Len(text) > 0 /\ text[1] = "-"
    THEN 0 - RefNat(SubSeq(text, 2, Len(text)), 1, base, 0)
    ELSE RefNat(text, 1, base, 0)

\* first n characters of a text
Prefix(text, n) == SubSeq(text, 1, IF n < Len(text) THEN n ELSE Len(text))

\* what a matched conversion entry leaves in its output variable, read off
\* the buffer text it consumed
RefValue(e) ==
    LET text == Text(SkipSpaces(e.pstart), e.pend)
        w == IF e.strWidth > 0 THEN e.strWidth ELSE DefaultStrWidth
    IN  CASE e.spec \in {"d", "u", "x"} ->
               [type |-> IntType(e),
                val |-> RefLimbs(RefInt(text, IF e.spec = "x" THEN 16 ELSE 10),
                                 IntWidth(e))]
          [] e.spec \in {"f", "g", "e"} ->
               [type |-> FloatType(e), val |-> strtod(text).val]
          [] e.spec = "c" ->
               [type |-> "char", val |-> <<MemAt(e.pstart)>>]
          [] e.spec = "s" ->
               [type |-> "char[]", val |-> Prefix(text, w - 1)]

\* C11: an output variable is written only when its own conversion
\* matches: after a call that returns k the first k variables hold the
\* values of the first k conversions, and the variable of the failing
\* directive and all later ones are as they were before the call.
C11_WrittenOnlyOnSuccess ==
    /\ \A i \in 1..Len(slots) : i > matchedCount => slots[i] = SlotsBefore[i]
    /\ \A k \in 1..Len(trace) :
          (trace[k].kind = "conv" /\ trace[k].ok)
          => /\ trace[k].slot = trace[k].before + 1
             /\ buffer \notin WideTexts =>
                   slots[trace[k].slot] = RefValue(trace[k])
    /\ pc = "done" =>
          /\ ret = matchedCount
          /\ \A i \in 1..ret :
                \E k \in 1..Len(trace) :
                    trace[k].kind = "conv" /\ trace[k].ok /\ trace[k].slot = i

C11_Witness ==
    /\ pc = "done"
    /\ Len(results) = 2
    /\ ret = 1
    /\ Len(slots) = 2
    /\ LastEntry.kind = "conv"
    /\ ~LastEntry.ok
    /\ LastEntry.slot = 2
    /\ slots[2] # Unset
    /\ slots[1] # results[1].slots[1]

\* ------------------------------------------------------------------------
\* Two invocations on one buffer: the first is the call modelled above, the
\* second is held in other and runs the same code on its own offset and
\* its own output variables.  Steps of the two interleave freely.
\* ------------------------------------------------------------------------

\* longest buffer of the two-invocation runs
MaxPairLen == 2

\* faulty variant of OwnScanner: the scanner is one object shared by all
\* invocations
OwnScanner_static(st) == [ptr |-> ptr, rd |-> {}]

\* MemScanner ms is a local object of the invocation
OwnScanner(st) == [ptr |-> st.ptr, rd |-> {}]

\* the conversion at the format pointer of invocation state st
ConvertOf(st, d) ==
    IF d.spec = NUL
    THEN [ms |-> OwnScanner(st), success |-> FALSE, slots |-> st.slots,
          argi |-> st.argi]
    ELSE Convert(d, OwnScanner(st), st.slots, st.argi)

AfterConversion(st, d, r) ==
    [st EXCEPT !.ptr = r.ms.ptr, !.slots = r.slots, !.argi = r.argi,
               !.fpos = d.next,
               !.matchedCount = Counted(r.success, st.matchedCount),
               !.pc = IF r.success THEN "loop" ELSE "break"]

AfterLiteral(st, lit) ==
    [st EXCEPT !.ptr = lit.ms.ptr, !.fpos = st.fpos + 1,
               !.pc = IF lit.matched THEN "loop" ELSE "break"]

\* one iteration of the format loop on an invocation state
StepOf(st) ==
    IF FmtAt(st.fpos) = "%"
    THEN AfterConversion(st, ParseDirective(st.fpos),
                         ConvertOf(st, ParseDirective(st.fpos)))
    ELSE IF isspace(FmtAt(st.fpos))
    THEN [st EXCEPT !.ptr = ms_skip_whitespace(OwnScanner(st)).ptr,
                    !.fpos = st.fpos + 1]
    ELSE IF FmtAt(st.fpos) = "\n"
    THEN [st EXCEPT !.ptr = MatchNewline(OwnScanner(st)).ptr,
                    !.fpos = st.fpos + 1]
    ELSE AfterLiteral(st, MatchLiteral(OwnScanner(st), FmtAt(st.fpos)))

\* entry of the second invocation
CallOther ==
    /\ other.pc = "idle"
    /\ other' = [other EXCEPT !.pc = "loop", !.ptr = other.offset,
                              !.start = other.offset, !.fpos = 1, !.argi = 0,
                              !.matchedCount = 0, !.amidCall = Amid]
    /\ UNCHANGED <<buffer, size, format, offset, slots, ptr, fpos, argi,
                   matchedCount, pc, ret, calls, reads, trace, startOffset,
                   results>>

\* one iteration of the format loop of the second invocation
StepOther ==
    /\ other.pc = "loop"
    /\ FmtAt(other.fpos) # NUL
    /\ other' = StepOf(other)
    /\ UNCHANGED <<buffer, size, format, offset, slots, ptr, fpos, argi,
                   matchedCount, pc, ret, calls, reads, trace, startOffset,
                   results>>

\* exit of the second invocation
ReturnOther ==
    /\ other.pc = "break" \/ (other.pc = "loop" /\ FmtAt(other.fpos) = NUL)
    /\ other' = [other EXCEPT !.pc = "done", !.offset = other.ptr,
                              !.ret = other.matchedCount,
                              !.amidReturn = Amid]
    /\ UNCHANGED <<buffer, size, format, offset, slots, ptr, fpos, argi,
                   matchedCount, pc, ret, calls, reads, trace, startOffset,
                   results>>

\* start offsets of the second invocation: anywhere in a short buffer, a
\* record boundary in a buffer of records
OtherStarts(fam) ==
    IF fam = "record" THEN {n \in {0, Len(Record1), Len(Record2)} : n <= size}
    ELSE 0..size

PairFamilies == {"integer", "string", "literal", "record"}

PairTexts(fam) ==
    IF fam = "record"
    THEN {Record1, Record1 \o Record2, Record2 \o Record1, Record1 \o Record1Cut}
    ELSE {b \in TextsOf(fam) : Len(b) <= MaxPairLen}

\* the first invocation starts at the beginning of the buffer
InitPair ==
    /\ \E fam \in PairFamilies :
          /\ format \in FormatsOf(fam)
          /\ buffer \in PairTexts(fam)
          /\ size \in Sizes(buffer)
          /\ offset = 0
          /\ \E o \in OtherStarts(fam) :
                other = [NoOther EXCEPT
                            !.pc = "idle", !.offset = o, !.start = o,
                            !.slots = [i \in 1..CountPercent(format, 1) |-> Unset]]
    /\ slots = [i \in 1..CountPercent(format, 1) |-> Unset]
    /\ ptr = 0
    /\ fpos = 1
    /\ argi = 0
    /\ matchedCount = 0
    /\ pc = "idle"
    /\ ret = 0
    /\ calls = 0
    /\ reads = {}
    /\ trace = <<>>
    /\ startOffset = offset
    /\ results = <<>>

NextPair ==
    \/ Call
    \/ StepConversion
    \/ StepWhitespace
    \/ StepLiteral
    \/ Return
    \/ CallOther
    \/ StepOther
    \/ ReturnOther

SpecPair == InitPair /\ [][NextPair]_vars

\* the format loop run to its end from an invocation state, undisturbed
RECURSIVE RunAlone(_)
RunAlone(st) ==
    IF st.pc = "break" \/ FmtAt(st.fpos) = NUL THEN st
    ELSE RunAlone(StepOf(st))

\* what a call entered at offset o with fresh output variables gives when
\* it runs alone: return value, final offset, output variables
Alone(o) ==
    LET st == RunAlone([NoOther EXCEPT
                           !.pc = "loop", !.ptr = o,
                           !.slots = [i \in 1..CountPercent(format, 1) |-> Unset]])
    IN  [ret |-> st.matchedCount, offset |-> st.ptr, slots |-> st.slots]

\* C12: two invocations on one read-only buffer, each with its own offset
\* and output variables, give under every interleaving of their steps the
\* return value, offset and output values each gives when it runs alone.
C12_IndependentInvocations ==
    (pc = "done" /\ other.pc = "done")
    => /\ [ret |-> ret, offset |-> offset, slots |-> slots] = Alone(startOffset)
       /\ [ret |-> other.ret, offset |-> other.offset, slots |-> other.slots]
             = Alone(other.start)

C12_Witness ==
    /\ pc = "done"
    /\ other.pc = "done"
    /\ other.start # startOffset
    /\ other.amidCall
    /\ other.amidReturn
    /\ ret >= 1
    /\ other.ret >= 1
    /\ other.slots # slots

\* index of the first character at or after i that is a newline or not
\* whitespace (size when there is none)
NewlineOrText(i) ==
    CHOOSE j \in i..size :
        /\ \A k \in i..(j - 1) : isspace(MemAt(k)) /\ MemAt(k) # "\n"
        /\ (j = size \/ MemAt(j) = "\n" \/ ~isspace(MemAt(j)))

\* C13: a newline of the format consumes buffer whitespace up to and
\* including the first newline and nothing after it; a character that is
\* not whitespace met before any newline is left unconsumed and halts the
\* scan, so that no later directive is processed.
C13_NewlineDirective ==
    \A k \in 1..Len(trace) :
        LET e == trace[k]
            j == NewlineOrText(e.pstart)
        IN  (e.kind \in {"space", "newline"} /\ e.spec = "\n")
            => IF j = size THEN e.pend = size
               ELSE IF MemAt(j) = "\n" THEN e.pend = j + 1
               ELSE /\ e.pend = j
                    /\ k = Len(trace)
                    /\ pc \in {"break", "done"}

\* the entry is a conversion that calls a token scanner
IsScan(e) ==
    e.kind = "conv" /\ e.spec \in {"d", "u", "x", "f", "g", "e", "c", "s"}

\* the call of the token scanner the entry's conversion makes
ScanOf(e) ==
    CASE e.spec \in {"d", "u", "x"} ->
           readIntegerToken([ptr |-> e.pstart, rd |-> {}], AllowSign(e.spec),
                            BaseOf(e.spec), IntTokSize)
      [] e.spec \in {"f", "g", "e"} ->
           readFloatToken([ptr |-> e.pstart, rd |-> {}], FloatTokSize)
      [] e.spec = "c" -> readChar([ptr |-> e.pstart, rd |-> {}])
      [] e.spec = "s" ->
           readString([ptr |-> e.pstart, rd |-> {}],
                      IF e.strWidth > 0 THEN e.strWidth ELSE DefaultStrWidth)

\* C14 as stated: a token scanner that reports failure leaves the cursor
\* where it was when it was called; leading whitespace and a lone sign are
\* not consumed.
C14_FailedScannerRestores ==
    \A k \in 1..Len(trace) :
        (IsScan(trace[k]) /\ ~ScanOf(trace[k]).ok)
        => /\ ScanOf(trace[k]).ms.ptr = trace[k].pstart
           /\ trace[k].pend = trace[k].pstart

\* where a failed scanner leaves the cursor: readChar where it was; the
\* others past the leading whitespace, readIntegerToken also past one sign
\* when it accepts signs, readString of width 1 also past the token
FailedScanEnd(e) ==
    LET t == SkipSpaces(e.pstart)
    IN  CASE e.spec = "c" -> e.pstart
          [] e.spec = "d" ->
               IF t < size /\ MemAt(t) \in {"+", "-"} THEN t + 1 ELSE t
          [] e.spec = "s" -> IF e.strWidth = 1 THEN TokenEnd(t) ELSE t
          [] OTHER -> t

\* C14 amended: a token scanner that reports failure does not restore the
\* cursor.  readChar fails only at the end of the buffer and consumes
\* nothing; the other scanners leave the cursor past the leading whitespace
\* they skipped, readIntegerToken also past the sign it accepted, and
\* readString of width 1 past the token it could not store.
C14_FailedScannerCursor ==
    \A k \in 1..Len(trace) :
        (IsScan(trace[k]) /\ ~ScanOf(trace[k]).ok)
        => /\ ScanOf(trace[k]).ms.ptr = FailedScanEnd(trace[k])
           /\ trace[k].pend = FailedScanEnd(trace[k])
           /\ ~trace[k].ok
           /\ trace[k].spec = "c" => trace[k].pstart = size
           /\ (trace[k].spec = "s" /\ trace[k].strWidth # 1)
                 => trace[k].pend = size

C14_Witness ==
    /\ pc = "done"
    /\ Len(trace) = 1
    /\ trace[1].spec = "d"
    /\ ~ScanOf(trace[1]).ok
    /\ SkipSpaces(trace[1].pstart) > trace[1].pstart
    /\ MemAt(SkipSpaces(trace[1].pstart)) = "-"
    /\ offset = SkipSpaces(trace[1].pstart) + 1
    /\ offset < size

\* C15: a signed decimal directive (%d, %hd, %ld) on optional whitespace,
\* one optional '+' or '-', and one to four decimal digits (a value every
\* target type holds) matches: the count rises, the output variable holds the signed value and
\* the cursor is just past the last digit.  With '+' as with '-'.
C15_SignedDecimalMatches ==
    \A k \in 1..Len(trace) :
        LET e == trace[k]
            t == SkipSpaces(e.pstart)
            s == IF t < size /\ MemAt(t) \in {"+", "-"} THEN 1 ELSE 0
            n == Len(DigitRun(SubSeq(buffer, 1, size), t + s + 1, 10))
            v == RefNat(Text(t + s, t + s + n), 1, 10, 0)
        IN  (/\ e.kind = "conv"
             /\ e.spec = "d"
             /\ FmtAt(e.fstart + 1) \in {"d", "h", "l"}
             /\ n >= 1
             /\ n <= 4)
            => /\ e.ok
               /\ e.pend = t + s + n
               /\ matchedCount >= e.before + 1
               /\ slots[e.slot] =
                     [type |-> IntType(e),
                      val |-> RefLimbs(IF s = 1 /\ MemAt(t) = "-" THEN 0 - v ELSE v,
                                       IntWidth(e))]

\* the characters readFloatToken takes after the leading sign
FloatBodyChar(c) == isdigit(c) \/ c \in {".", "e", "E"}

\* the input at t is a sign that nothing of a number follows
LoneSignAt(t) ==
    /\ t < size
    /\ MemAt(t) \in {"+", "-"}
    /\ (t + 1 = size \/ ~FloatBodyChar(MemAt(t + 1)))

\* the input at t is a decimal point that nothing of a number follows
LoneDotAt(t) ==
    /\ t < size
    /\ MemAt(t) = "."
    /\ (t + 1 = size \/ ~(isdigit(MemAt(t + 1)) \/ MemAt(t + 1) \in {"e", "E"}))

\* C16: readFloatToken reports success only when it consumed a significant
\* character besides an optional leading sign: on a lone '+' or '-' it
\* reports failure, and neither a lone sign nor a lone decimal point gives
\* a matched %f, %lf or %Lf.
C16_FloatNeedsSignificant ==
    \A k \in 1..Len(trace) :
        LET e == trace[k]
            t == SkipSpaces(e.pstart)
        IN  (e.kind = "conv" /\ e.spec \in {"f", "g", "e"})
            => /\ LoneSignAt(t) => ~ScanOf(e).ok
               /\ (LoneSignAt(t) \/ LoneDotAt(t)) => ~e.ok
               /\ ScanOf(e).ok =>
                     \E i \in 1..Len(ScanOf(e).tok) :
                         ~(i = 1 /\ ScanOf(e).tok[1] \in {"+", "-"})

\* the row of WideExpected for the current buffer and a type letter
WideRow(spec) ==
    LET c == CHOOSE c \in {WideExpected[i] : i \in 1..Len(WideExpected)} :
                 c.text = buffer
    IN  IF spec = "d" THEN c.d ELSE IF spec = "u" THEN c.u ELSE c.x

\* the first directive is an integer conversion applied to the whole of a
\* wide token
OnWideToken ==
    /\ buffer \in WideTexts
    /\ size = Len(buffer)
    /\ startOffset = 0
    /\ Len(trace) >= 1
    /\ trace[1].kind = "conv"
    /\ trace[1].spec \in {"d", "u", "x"}
    /\ WideRow(trace[1].spec).valid

\* C17 as stated: an integer directive whose scanner captured a digit is
\* always counted as matched, whatever the number of digits and the size of
\* the value.
C17_AlwaysMatched ==
    \A k \in 1..Len(trace) :
        (/\ trace[k].kind = "conv"
         /\ trace[k].spec \in {"d", "u", "x"}
         /\ ScanOf(trace[k]).ok)
        => /\ trace[k].ok
           /\ matchedCount >= trace[k].before + 1

\* C17 amended: an integer directive whose scanner captured a token that
\* does not start with '+' and fits the token buffer is matched exactly
\* when the value of the token fits 64 bits: signed for %d, unsigned for
\* %u and %x.  The whole token is consumed in both cases.  A matched value
\* wider than the output type is narrowed silently to its low bits; a
\* value that does not fit 64 bits is a mismatch that writes nothing.
C17_NarrowedOrRejected ==
    /\ OnWideToken =>
          /\ trace[1].pend = size
          /\ trace[1].ok = WideRow(trace[1].spec).ok
          /\ slots[1] = IF WideRow(trace[1].spec).ok
                        THEN [type |-> IntType(trace[1]),
                              val |-> SubSeq(WideRow(trace[1].spec).limbs, 1,
                                             IntWidth(trace[1]))]
                        ELSE Unset
          /\ pc = "done" => ret >= (IF WideRow(trace[1].spec).ok THEN 1 ELSE 0)
          /\ (pc = "done" /\ ~WideRow(trace[1].spec).ok) => ret = 0 /\ offset = size
    /\ \A k \in 1..Len(trace) :
          LET e == trace[k]
              t == SkipSpaces(e.pstart)
          IN  (/\ e.kind = "conv"
               /\ e.spec \in {"d", "u", "x"}
               /\ MemAt(t) # "+"
               /\ e.pend - t <= 15
               /\ ScanOf(e).ok)
              => /\ e.ok
                 /\ matchedCount >= e.before + 1

C17_Witness ==
    /\ pc = "done"
    /\ buffer = WideLongOver
    /\ size = Len(buffer)
    /\ format = <<"%", "d">>
    /\ ScanOf(trace[1]).ok
    /\ ~trace[1].ok
    /\ ret = 0
    /\ offset = size

\* ------------------------------------------------------------------------
\* Progress: the code of a call runs on until it returns, and the caller's
\* loop calls again as long as its condition holds
\* ------------------------------------------------------------------------

\* StepConversion is enabled exactly when the loop stands on a '%': it
\* always moves the format pointer
ConversionEnabled == pc = "loop" /\ FmtAt(fpos) = "%"

\* Weak fairness of every step of the call.  That of StepConversion is
\* written out with its enabling condition, WF_vars(StepConversion) being
\* []<>(~ENABLED <<StepConversion>>_vars) \/ []<><<StepConversion>>_vars.
SpecLive ==
    /\ Spec
    /\ WF_vars(StepWhitespace)
    /\ WF_vars(StepLiteral)
    /\ WF_vars(Return)
    /\ ([]<>(~ConversionEnabled) \/ []<><<StepConversion>>_vars)

\* each finished call left the offset at or after its start and within the
\* buffer, further on when it matched a conversion; the calls that return
\* the expected count of a format with conversions number at most the bytes
\* from the first start to size; a call takes at most one loop iteration
\* per character of the format
Advances ==
    /\ \A i \in 1..Len(results) :
          /\ results[i].start <= results[i].offset
          /\ results[i].offset <= size
          /\ results[i].ret >= 1 => results[i].start < results[i].offset
          /\ i > 1 => results[i].start = results[i - 1].offset
    /\ (Expected >= 1 /\ Len(results) >= 1) =>
          Cardinality({i \in 1..Len(results) : results[i].ret = Expected})
             <= size - results[1].start
    /\ Len(trace) <= Len(format)
    /\ calls <= Len(results) + 1

\* C18: every call terminates, never decreases the offset, and increases it
\* when it returns a count of 1 or more; so the caller's loop, which goes on
\* while the count is the expected one, ends after at most size iterations.
C18_TerminatesAndAdvances ==
    /\ []Advances
    /\ (pc = "loop") ~> (pc = "done")

C18_Witness ==
    /\ pc = "done"
    /\ Len(results) = 3
    /\ size = 3
    /\ results[1].start = 0
    /\ results[1].ret = 1
    /\ results[2].ret = 1
    /\ results[3].ret = 1
    /\ results[3].offset = size

====
